---------------------------- MODULE Spec2Model ----------------------------
(***************************************************************************)
(* A model of ttp.py: the terminal typing exercise.                        *)
(*                                                                         *)
(* The state is the TypingExercise object (its fields keep their names),   *)
(* the terminal size run() reads once, the local `key` of the input loop,  *)
(* the value run() returns and the record main() saves.  Strings are       *)
(* sequences of code points, so chr() and the comparisons of characters    *)
(* are comparisons of integers.  Indices are 0-based as in the source; a   *)
(* sequence s is read at s[i + 1].  A field that may be None holds None or  *)
(* Some(v).                                                                *)
(*                                                                         *)
(* Time is counted in ticks from the call of run(): start_time is 0, and a *)
(* draw that follows a blocking getch() sees an elapsed time of at least   *)
(* one tick.  The header's arithmetic is the operator DrawHeader, which    *)
(* takes the elapsed time as a parameter.                                  *)
(*                                                                         *)
(* The header and footer are assumed to fit the terminal (addstr does not  *)
(* fail); the terminal is at least MinRows high.                           *)
(***************************************************************************)
EXTENDS Integers, Sequences, FiniteSets, TLC

VARIABLES
    text,            \* self.text: the reference text
    lines,           \* self.lines: the text split with its terminators
    total_chars,     \* self.total_chars
    current_pos,     \* self.current_pos
    correct_chars,   \* self.correct_chars
    wrong_chars,     \* self.wrong_chars
    start_time,      \* self.start_time
    end_time,        \* self.end_time
    user_input,      \* self.user_input
    current_page,    \* self.current_page
    total_pages,     \* self.total_pages
    page_line_count, \* self.page_line_count
    pages,           \* self.pages
    page_indices,    \* self.page_indices: <<start, end>> per page
    height,          \* stdscr.getmaxyx()[0]
    width,           \* stdscr.getmaxyx()[1]
    key,             \* the local `key` of run(): the last key getch() returned
    pc,              \* where the program is
    completed,       \* what run() returned
    record,          \* the record save_record() wrote
    before           \* history: the counters before the last typed character

vars == <<text, lines, total_chars, current_pos, correct_chars, wrong_chars,
          start_time, end_time, user_input, current_page, total_pages,
          page_line_count, pages, page_indices, height, width, key, pc,
          completed, record, before>>

session == <<current_pos, correct_chars, wrong_chars, user_input>>

---------------------------------------------------------------------------
(* Bounds of the model.                                                    *)

\* longest reference text of a typing session
MaxLen == 3
\* longest reference text whose pagination and drawing are checked
MaxText == 8
\* widest terminal
MaxWidth == 2
\* highest terminal
MaxHeight == 10
\* most characters typed in one session (the counters never decrease)
MaxKeys == 4
\* longest elapsed time, in ticks
MaxElapsed == 2

---------------------------------------------------------------------------
(* Constants of the program.                                               *)

NL == 10
ESC == 27
DEL == 127
KEY_BACKSPACE == 263
KEY_UP == 259
LetterA == 97
MaxCodePoint == 1114111
TextRow == 5
ReservedRows == 7
\* An optional value: None, or Some(v) holding v.
None == <<>>
Some(v) == <<v>>
Val(o) == o[1]

\* The rows the header (0..4) and the footer (height - 1) are written to.
MinRows == TextRow + 1

Alphabet == {LetterA, NL}
\* What getch() can return: the two keys of the alphabet, the control keys,
\* a function key, and -1 (ERR).
Keys == {LetterA, NL, ESC, DEL, KEY_BACKSPACE, KEY_UP, -1}

Max(a, b) == IF a >= b THEN a ELSE b

RECURSIVE Join(_)
Join(ss) == IF ss = <<>> THEN <<>> ELSE Head(ss) \o Join(Tail(ss))

\* str.splitlines(keepends=True), for texts whose only line boundary is \n
RECURSIVE SplitLines(_, _)
SplitLines(t, cur) ==
    IF t = <<>> THEN (IF cur = <<>> THEN <<>> ELSE <<cur>>)
    ELSE IF Head(t) = NL THEN <<Append(cur, NL)>> \o SplitLines(Tail(t), <<>>)
    ELSE SplitLines(Tail(t), Append(cur, Head(t)))

\* str.rstrip('\n')
RECURSIVE RStrip(_)
RStrip(s) ==
    IF s # <<>> /\ s[Len(s)] = NL THEN RStrip(SubSeq(s, 1, Len(s) - 1)) ELSE s

\* chr(key): ValueError outside range(0x110000)
ChrRaises(k) == k < 0 \/ k > MaxCodePoint
Chr(k) == k

TextsUpTo(n) == UNION {[1..m -> Alphabet] : m \in 0..n}

---------------------------------------------------------------------------
(* Pagination: lines 55-89 of run().                                       *)

LinesNeeded(content, w) ==
    LET n == (Len(content) + w - 1) \div w
    IN  IF n = 0 THEN 1 ELSE n

\* PageRange with the page's start taken one character late.
PageRange_LateStart(current_chars, page_text) ==
    <<current_chars - Len(page_text) + 1, current_chars>>

\* lines 73 and 87: the range of a page closed when current_chars were read
PageRange(current_chars, page_text) ==
    <<current_chars - Len(page_text), current_chars>>

\* ClosePage with the budget taken one row too large.
ClosePage_OneRowOver(line_count, lines_needed, plc) ==
    line_count + lines_needed > plc + 1 /\ line_count > 0

\* ClosePage closing a page that the next line would fill exactly.
ClosePage_Early(line_count, lines_needed, plc) ==
    line_count + lines_needed >= plc /\ line_count > 0

\* line 70: the page is closed before the line is added
ClosePage(line_count, lines_needed, plc) ==
    line_count + lines_needed > plc /\ line_count > 0

RECURSIVE PaginateLoop(_, _, _, _, _, _, _, _, _)
PaginateLoop(ls, i, w, plc, cur, chars, lc, pgs, idx) ==
    IF i > Len(ls)
    THEN IF cur # <<>>
         THEN [pages |-> Append(pgs, Join(cur)),
               page_indices |-> Append(idx, PageRange(chars, Join(cur)))]
         ELSE [pages |-> pgs, page_indices |-> idx]
    ELSE LET line == ls[i]
             lines_needed == LinesNeeded(RStrip(line), w)
         IN  IF ClosePage(lc, lines_needed, plc)
             THEN PaginateLoop(ls, i + 1, w, plc, <<line>>, chars + Len(line),
                               lines_needed, Append(pgs, Join(cur)),
                               Append(idx, PageRange(chars, Join(cur))))
             ELSE PaginateLoop(ls, i + 1, w, plc, Append(cur, line),
                               chars + Len(line), lc + lines_needed, pgs, idx)

Paginate(ls, w, plc, idx0) == PaginateLoop(ls, 1, w, plc, <<>>, 0, 0, <<>>, idx0)

PageStart(p) == page_indices[p + 1][1]
PageEnd(p) == page_indices[p + 1][2]

---------------------------------------------------------------------------
(* draw_header: the arithmetic of lines 158-169.                           *)

\* Numbers that Python computes as floats are kept as fractions; raised
\* says that the call ends in ZeroDivisionError, at the line given.
DrawHeader(pos, correct, total, elapsed) ==
    IF total = 0 THEN [raised |-> TRUE, line |-> 158]
    ELSE IF pos > 0 /\ elapsed = 0 THEN [raised |-> TRUE, line |-> 166]
    ELSE [raised |-> FALSE,
          progress |-> <<pos, total>>,
          stats |-> IF pos > 0
                    THEN [speed |-> <<pos * 60, 5 * elapsed>>,
                          accuracy |-> <<correct * 100, pos>>]
                    ELSE None]

---------------------------------------------------------------------------
(* draw_text: lines 177-237.                                               *)

Colour(char_index, char, page_start, pos, ui) ==
    IF char_index < pos
    THEN LET idx_in_page == char_index - page_start
         IN  IF idx_in_page < Len(ui)
             THEN (IF ui[idx_in_page + 1] = char THEN 1 ELSE 2)
             ELSE 4
    ELSE IF char_index = pos THEN 3 ELSE 5

\* st: y, line_idx, col_idx, char_index, the cells drawn so far, and the
\* row each character was met at.
RECURSIVE DrawLoop(_, _, _, _, _, _, _, _, _, _)
DrawLoop(pt, k, st, page_start, page_end, pos, ui, h, w, plc) ==
    IF k > Len(pt) THEN st
    ELSE IF st.y >= h - 1 THEN st
    ELSE IF st.char_index >= page_end THEN st
    ELSE LET char == pt[k]
             met == Append(st.met, [idx |-> st.char_index, y |-> st.y])
         IN  IF char = NL
             THEN DrawLoop(pt, k + 1,
                           [st EXCEPT !.y = @ + 1, !.line_idx = @ + 1,
                                      !.col_idx = 0, !.char_index = @ + 1,
                                      !.met = met],
                           page_start, page_end, pos, ui, h, w, plc)
             ELSE LET cells ==
                          IF st.y >= TextRow /\ st.col_idx < w
                          THEN Append(st.cells,
                                      [y |-> st.y, x |-> st.col_idx,
                                       idx |-> st.char_index, char |-> char,
                                       colour |-> Colour(st.char_index, char,
                                                         page_start, pos, ui)])
                          ELSE st.cells
                      wrap == st.col_idx + 1 >= w
                      st2 == [y |-> IF wrap THEN st.y + 1 ELSE st.y,
                              line_idx |-> IF wrap THEN st.line_idx + 1
                                           ELSE st.line_idx,
                              col_idx |-> IF wrap THEN 0 ELSE st.col_idx + 1,
                              char_index |-> st.char_index + 1,
                              cells |-> cells,
                              met |-> met]
                  IN  IF wrap /\ st2.line_idx >= plc THEN st2
                      ELSE DrawLoop(pt, k + 1, st2, page_start, page_end,
                                    pos, ui, h, w, plc)

\* What draw_text does with page cp current, the cursor at pos and ui typed.
DrawText(cp, pos, ui) ==
    IF total_pages = 0
    THEN [y |-> TextRow, line_idx |-> 0, col_idx |-> 0, char_index |-> 0,
          cells |-> <<>>, met |-> <<>>]
    ELSE DrawLoop(pages[cp + 1], 1,
                  [y |-> TextRow, line_idx |-> 0, col_idx |-> 0,
                   char_index |-> PageStart(cp), cells |-> <<>>, met |-> <<>>],
                  PageStart(cp), PageEnd(cp), pos, ui, height, width,
                  page_line_count)

---------------------------------------------------------------------------
(* __init__: lines 12-45.                                                  *)

Constructed(t, h, w) ==
    /\ text = Join(SplitLines(t, <<>>))
    /\ lines = SplitLines(t, <<>>)
    /\ total_chars = Len(Join(SplitLines(t, <<>>)))
    /\ current_pos = 0
    /\ correct_chars = 0
    /\ wrong_chars = 0
    /\ start_time = None
    /\ end_time = None
    /\ user_input = <<>>
    /\ current_page = 0
    /\ total_pages = 0
    /\ page_line_count = 0
    /\ pages = <<>>
    /\ page_indices = <<>>
    /\ height = h
    /\ width = w
    /\ key = None
    /\ pc = "constructed"
    /\ completed = None
    /\ record = None
    /\ before = None

Init ==
    \E t \in TextsUpTo(MaxLen), h \in MinRows..MaxHeight, w \in 1..MaxWidth :
        Constructed(t, h, w)

InitPaginate ==
    \E t \in TextsUpTo(MaxText), h \in MinRows..MaxHeight, w \in 1..MaxWidth :
        Constructed(t, h, w)

---------------------------------------------------------------------------
(* run(): lines 49-96, up to the input loop.                               *)

Run_Start ==
    /\ pc = "constructed"
    /\ start_time' = Some(0)
    /\ page_line_count' = Max(1, height - ReservedRows)
    /\ LET r == Paginate(lines, width, page_line_count', page_indices)
       IN  /\ pages' = r.pages
           /\ page_indices' = r.page_indices
           /\ total_pages' = Len(r.pages)
    /\ current_page' = 0
    /\ \E elapsed \in 0..MaxElapsed :
           pc' = IF DrawHeader(current_pos, correct_chars, total_chars,
                               elapsed).raised
                 THEN "crashed" ELSE "loop"
    /\ UNCHANGED <<text, lines, total_chars, current_pos, correct_chars,
                   wrong_chars, end_time, user_input, height, width, key,
                   completed, record, before>>

---------------------------------------------------------------------------
(* The input loop: lines 99-140.  Each action is one iteration.            *)

\* the redraw of lines 134-137 (and 104-107), after a getch(): what pc becomes
Redraw(pos, correct, elapsed) ==
    IF DrawHeader(pos, correct, total_chars, elapsed).raised
    THEN "crashed" ELSE "loop"

\* PastPageEnd with > for >=.
PastPageEnd_Strict == current_pos > PageEnd(current_page)

\* line 101
PastPageEnd == current_pos >= PageEnd(current_page)

\* the loop is blocked in getch() (line 112)
AtGetch ==
    /\ pc = "loop"
    /\ current_pos < total_chars
    /\ ~PastPageEnd

\* Loop_Exit leaving the loop at the end of any page.
Loop_Exit_AtAnyPageEnd ==
    /\ pc = "loop"
    /\ \/ current_pos >= total_chars
       \/ PastPageEnd
    /\ \E t \in 1..MaxElapsed : end_time' = Some(t)
    /\ completed' = Some(TRUE)
    /\ pc' = "returned"
    /\ UNCHANGED <<text, lines, total_chars, current_pos, correct_chars,
                   wrong_chars, start_time, user_input, current_page,
                   total_pages, page_line_count, pages, page_indices, height,
                   width, key, record, before>>

\* lines 99 (false) and 109-110, then 139-140
Loop_Exit ==
    /\ pc = "loop"
    /\ \/ current_pos >= total_chars
       \/ PastPageEnd /\ ~(current_page < total_pages - 1)
    /\ \E t \in 1..MaxElapsed : end_time' = Some(t)
    /\ completed' = Some(TRUE)
    /\ pc' = "returned"
    /\ UNCHANGED <<text, lines, total_chars, current_pos, correct_chars,
                   wrong_chars, start_time, user_input, current_page,
                   total_pages, page_line_count, pages, page_indices, height,
                   width, key, record, before>>

\* lines 101-108
Loop_NextPage ==
    /\ pc = "loop"
    /\ current_pos < total_chars
    /\ PastPageEnd
    /\ current_page < total_pages - 1
    /\ current_page' = current_page + 1
    /\ \E elapsed \in 1..MaxElapsed :
           pc' = Redraw(current_pos, correct_chars, elapsed)
    /\ UNCHANGED <<text, lines, total_chars, current_pos, correct_chars,
                   wrong_chars, start_time, end_time, user_input, total_pages,
                   page_line_count, pages, page_indices, height, width, key,
                   completed, record, before>>

\* Key_Esc without line 116.
Key_Esc_NoEndTime ==
    /\ AtGetch
    /\ key' = Some(ESC)
    /\ completed' = Some(FALSE)
    /\ pc' = "returned"
    /\ before' = None
    /\ UNCHANGED <<text, lines, total_chars, current_pos, correct_chars,
                   wrong_chars, start_time, end_time, user_input,
                   current_page, total_pages, page_line_count, pages,
                   page_indices, height, width, record>>

\* lines 112-117
Key_Esc ==
    /\ AtGetch
    /\ key' = Some(ESC)
    /\ \E t \in 1..MaxElapsed : end_time' = Some(t)
    /\ completed' = Some(FALSE)
    /\ pc' = "returned"
    /\ before' = None
    /\ UNCHANGED <<text, lines, total_chars, current_pos, correct_chars,
                   wrong_chars, start_time, user_input, current_page,
                   total_pages, page_line_count, pages, page_indices, height,
                   width, record>>

\* Key_Backspace without the test of line 121.
Key_Backspace_NoGuard ==
    /\ AtGetch
    /\ \E k \in Keys :
           /\ k = KEY_BACKSPACE \/ k = DEL
           /\ key' = Some(k)
    /\ user_input' = SubSeq(user_input, 1, Len(user_input) - 1)
    /\ current_pos' = current_pos - 1
    /\ \E elapsed \in 1..MaxElapsed :
           pc' = Redraw(current_pos', correct_chars, elapsed)
    /\ before' = None
    /\ UNCHANGED <<text, lines, total_chars, correct_chars, wrong_chars,
                   start_time, end_time, current_page, total_pages,
                   page_line_count, pages, page_indices, height, width,
                   completed, record>>

\* Key_Backspace without line 123.
Key_Backspace_PopOnly ==
    /\ AtGetch
    /\ \E k \in Keys :
           /\ k = KEY_BACKSPACE \/ k = DEL
           /\ key' = Some(k)
    /\ IF user_input # <<>>
       THEN user_input' = SubSeq(user_input, 1, Len(user_input) - 1)
       ELSE UNCHANGED user_input
    /\ UNCHANGED current_pos
    /\ \E elapsed \in 1..MaxElapsed :
           pc' = Redraw(current_pos', correct_chars, elapsed)
    /\ before' = None
    /\ UNCHANGED <<text, lines, total_chars, correct_chars, wrong_chars,
                   start_time, end_time, current_page, total_pages,
                   page_line_count, pages, page_indices, height, width,
                   completed, record>>

\* lines 112, 120-123, 134-137
Key_Backspace ==
    /\ AtGetch
    /\ \E k \in Keys :
           /\ k = KEY_BACKSPACE \/ k = DEL
           /\ key' = Some(k)
    /\ IF user_input # <<>>
       THEN /\ user_input' = SubSeq(user_input, 1, Len(user_input) - 1)
            /\ current_pos' = current_pos - 1
       ELSE UNCHANGED <<user_input, current_pos>>
    /\ \E elapsed \in 1..MaxElapsed :
           pc' = Redraw(current_pos', correct_chars, elapsed)
    /\ before' = None
    /\ UNCHANGED <<text, lines, total_chars, correct_chars, wrong_chars,
                   start_time, end_time, current_page, total_pages,
                   page_line_count, pages, page_indices, height, width,
                   completed, record>>

\* lines 112, 124-131, 134-137
Key_Char ==
    /\ AtGetch
    /\ correct_chars + wrong_chars < MaxKeys
    /\ \E k \in Keys :
           /\ k # ESC
           /\ ~(k = KEY_BACKSPACE \/ k = DEL)
           /\ key' = Some(k)
           /\ IF ChrRaises(k)
              THEN /\ pc' = "crashed"
                   /\ before' = None
                   /\ UNCHANGED <<user_input, correct_chars, wrong_chars,
                                  current_pos>>
              ELSE /\ user_input' = Append(user_input, Chr(k))
                   /\ IF Chr(k) = text[current_pos + 1]
                      THEN /\ correct_chars' = correct_chars + 1
                           /\ UNCHANGED wrong_chars
                      ELSE /\ wrong_chars' = wrong_chars + 1
                           /\ UNCHANGED correct_chars
                   /\ current_pos' = current_pos + 1
                   /\ before' = Some([current_pos |-> current_pos,
                                      correct_chars |-> correct_chars,
                                      wrong_chars |-> wrong_chars,
                                      user_input |-> user_input])
                   /\ \E elapsed \in 1..MaxElapsed :
                          pc' = Redraw(current_pos', correct_chars', elapsed)
    /\ UNCHANGED <<text, lines, total_chars, start_time, end_time,
                   current_page, total_pages, page_line_count, pages,
                   page_indices, height, width, completed, record>>

---------------------------------------------------------------------------
(* main(): lines 307-313, and save_record: lines 249-265.                  *)

SaveRecord ==
    [duration |-> Val(end_time) - Val(start_time),
     total_chars |-> total_chars,
     correct_chars |-> correct_chars,
     wrong_chars |-> wrong_chars,
     accuracy |-> IF total_chars > 0 THEN <<correct_chars * 100, total_chars>>
                  ELSE <<0, 1>>,
     speed_wpm |-> <<total_chars * 60, 5 * (Val(end_time) - Val(start_time))>>]

\* lines 309-311
Main_Save ==
    /\ pc = "returned"
    /\ completed = Some(TRUE)
    /\ IF Val(end_time) - Val(start_time) = 0
       THEN pc' = "crashed" /\ UNCHANGED record
       ELSE pc' = "exited" /\ record' = Some(SaveRecord)
    /\ UNCHANGED <<text, lines, total_chars, current_pos, correct_chars,
                   wrong_chars, start_time, end_time, user_input, current_page,
                   total_pages, page_line_count, pages, page_indices, height,
                   width, key, completed, before>>

\* lines 312-313
Main_Cancel ==
    /\ pc = "returned"
    /\ completed = Some(FALSE)
    /\ pc' = "exited"
    /\ UNCHANGED <<text, lines, total_chars, current_pos, correct_chars,
                   wrong_chars, start_time, end_time, user_input, current_page,
                   total_pages, page_line_count, pages, page_indices, height,
                   width, key, completed, record, before>>

Next ==
    \/ Run_Start
    \/ Loop_Exit
    \/ Loop_NextPage
    \/ Key_Esc
    \/ Key_Backspace
    \/ Key_Char
    \/ Main_Save
    \/ Main_Cancel

Spec == Init /\ [][Next]_vars

\* Pagination and the first draw alone, over longer texts.
NextPaginate == Run_Start

SpecPaginate == InitPaginate /\ [][NextPaginate]_vars

---------------------------------------------------------------------------
(* The session's counters.                                                 *)

\* The slots of typed whose judgment is ok (TRUE: correct, FALSE: wrong).
Judged(ok) ==
    {i \in 0..(current_pos - 1) :
        i < Len(user_input) /\ ((user_input[i + 1] = text[i + 1]) = ok)}

\* C1: after every input event, correct_chars + wrong_chars = current_pos.
C1_CountersSumToPosition == correct_chars + wrong_chars = current_pos

\* C2: the counters count the characters still in user_input: correct_chars
\* is the number of slots below current_pos typed as the reference has them,
\* wrong_chars the number of the others.
C2_CountersReflectTyped ==
    /\ correct_chars = Cardinality(Judged(TRUE))
    /\ wrong_chars = Cardinality(Judged(FALSE))

\* C3: a backspace right after a typed character restores current_pos,
\* correct_chars, wrong_chars and user_input to what they were before the
\* character.
C3_BackspaceUndoesChar ==
    [][(before # None /\ Key_Backspace) =>
           /\ current_pos' = Val(before).current_pos
           /\ correct_chars' = Val(before).correct_chars
           /\ wrong_chars' = Val(before).wrong_chars
           /\ user_input' = Val(before).user_input]_vars

---------------------------------------------------------------------------
(* Pages and position.                                                     *)

\* C4: whenever the loop blocks for a key, the current page holds
\* current_pos: its start <= current_pos < its end.
C4_PageHoldsPosition ==
    AtGetch =>
        /\ PageStart(current_page) <= current_pos
        /\ current_pos < PageEnd(current_page)

\* C5: the page ranges start at 0, each starts where the one before ends,
\* none is empty, the last ends at total_chars, each page's text is the
\* slice of its range, and the page texts in order are the reference text.
C5_PagesPartitionText ==
    pc # "constructed" =>
        /\ Len(page_indices) = Len(pages)
        /\ total_pages = Len(pages)
        /\ (total_chars > 0) => (total_pages > 0)
        /\ \A p \in 0..(total_pages - 1) :
               /\ PageStart(p) = (IF p = 0 THEN 0 ELSE PageEnd(p - 1))
               /\ PageStart(p) < PageEnd(p)
               /\ pages[p + 1] = SubSeq(text, PageStart(p) + 1, PageEnd(p))
        /\ (total_pages > 0) => (PageEnd(total_pages - 1) = total_chars)
        /\ Join(pages) = text

\* C5's case: three pages or more, one of them holding a wrapped line.
C5_Witness ==
    /\ pc = "loop"
    /\ total_pages >= 3
    /\ \E i \in 1..Len(lines) : LinesNeeded(RStrip(lines[i]), width) > 1
    /\ \E p \in 0..(total_pages - 1) : Len(SplitLines(pages[p + 1], <<>>)) > 1

---------------------------------------------------------------------------
(* Completion and cancellation.                                            *)

\* C6: the loop reports completion when and only when every character has
\* been judged: from current_pos = total_chars the only step is the
\* completed return, which reads no key and leaves the session as it is;
\* run() returns True only with current_pos = total_chars; and the exit of
\* line 110 (no pages remain) is taken only with current_pos = total_chars.
C6_CompletedIffAllJudged ==
    [][/\ (pc = "loop" /\ current_pos = total_chars) =>
              /\ pc' = "returned"
              /\ completed' = Some(TRUE)
              /\ key' = key
              /\ UNCHANGED session
       /\ (completed' = Some(TRUE)) => (current_pos' = total_chars)
       /\ (pc = "loop" /\ PastPageEnd /\ ~(current_page < total_pages - 1)) =>
              (current_pos = total_chars)]_vars

\* C6's case: a session of two pages or more completed by its last typed
\* character, after a backspace and a wrong character.
C6_Witness ==
    /\ pc = "returned"
    /\ completed = Some(TRUE)
    /\ current_pos = total_chars
    /\ total_pages >= 2
    /\ current_page = total_pages - 1
    /\ wrong_chars > 0
    /\ correct_chars + wrong_chars > current_pos
    /\ key = Some(text[total_chars])

\* C7: ESC read while the loop waits for a key returns False at once with
\* end_time set and current_pos, user_input, the counters and current_page
\* as they were, and a cancelled session never gets a record.
C7_EscCancels ==
    [][/\ (AtGetch /\ key' = Some(ESC)) =>
              /\ pc' = "returned"
              /\ completed' = Some(FALSE)
              /\ end_time' # None
              /\ UNCHANGED <<session, current_page>>
              /\ record' = None
       /\ (completed = Some(FALSE)) =>
              /\ record' = None
              /\ pc' = "exited"]_vars

\* C7's case: a session cancelled on its second page, after main() has ended.
C7_Witness ==
    /\ pc = "exited"
    /\ completed = Some(FALSE)
    /\ key = Some(ESC)
    /\ end_time # None
    /\ record = None
    /\ current_pos > 0
    /\ current_page > 0

---------------------------------------------------------------------------
(* Keys that are neither control keys nor characters.                      *)

\* the cancel and erase keys
ControlKey(k) == k = ESC \/ k = DEL \/ k = KEY_BACKSPACE
\* a key that stands for a character of a text: printable ASCII or Enter
Renderable(k) == k = NL \/ k \in 32..126

\* C8: a key that is neither a control key nor a renderable character is
\* ignored: the loop goes on, and current_pos, user_input and the counters
\* stay as they are.
C8_OtherKeyIgnored ==
    [][\A k \in Keys :
           (AtGetch /\ key' = Some(k) /\ ~ControlKey(k) /\ ~Renderable(k)) =>
               /\ pc' = "loop"
               /\ UNCHANGED session]_vars

---------------------------------------------------------------------------
(* The header and the text drawn.                                          *)

\* C9: in every state of the loop and for every elapsed time, 0 included,
\* the header's speed and accuracy are computed without a division by zero.
C9_HeaderNeverDividesByZero ==
    pc = "loop" =>
        \A elapsed \in 0..MaxElapsed :
            ~DrawHeader(current_pos, correct_chars, total_chars, elapsed).raised

\* the lines of page p, and the offset of the first character of its j-th
PageLines(p) == SplitLines(pages[p + 1], <<>>)
LineStart(p, j) == PageStart(p) + Len(Join(SubSeq(PageLines(p), 1, j - 1)))
\* the rows the paginator counts for page p
PageRows(p) ==
    Len(Join([j \in 1..Len(PageLines(p)) |->
                 [r \in 1..LinesNeeded(RStrip(PageLines(p)[j]), width) |-> j]]))
\* the row draw_text met offset i at; -1 when its loop ended before
RowMet(d, i) ==
    IF \E m \in 1..Len(d.met) : d.met[m].idx = i
    THEN d.met[CHOOSE m \in 1..Len(d.met) : d.met[m].idx = i].y
    ELSE -1

\* C10: on a terminal that has the rows of its page budget, on every page
\* within the budget, draw_text uses for each terminated line it gets
\* through as many rows as the paginator counted for it (the row after its
\* terminator is lines_needed below its first row), and every character of
\* the page that is not a terminator is drawn.
C10_DrawMirrorsPaginator ==
    (pc = "loop" /\ page_line_count = height - ReservedRows) =>
        \A p \in 0..(total_pages - 1) :
            PageRows(p) <= page_line_count =>
                LET d == DrawText(p, current_pos, user_input)
                IN  /\ \A j \in 1..Len(PageLines(p)) :
                           LET line == PageLines(p)[j]
                               first == LineStart(p, j)
                               last == first + Len(line) - 1
                           IN  (/\ line[Len(line)] = NL
                                /\ RowMet(d, first) # -1
                                /\ RowMet(d, last) # -1) =>
                                   RowMet(d, last) + 1 - RowMet(d, first)
                                       = LinesNeeded(RStrip(line), width)
                    /\ \A i \in PageStart(p)..(PageEnd(p) - 1) :
                           text[i + 1] # NL =>
                               \E c \in 1..Len(d.cells) : d.cells[c].idx = i

---------------------------------------------------------------------------
(* The row budget of a page.                                               *)

\* the rows the paginator counts for the j-th line of page p
RowsOfLine(p, j) == LinesNeeded(RStrip(PageLines(p)[j]), width)

\* C11: a page of more than one line has at most page_line_count rows; the
\* pages are made of whole lines, in order; and a line that alone needs
\* more than page_line_count rows is the only line of its page.
C11_PagesWithinBudget ==
    pc # "constructed" =>
        /\ Join([p \in 1..total_pages |-> PageLines(p - 1)]) = lines
        /\ \A p \in 0..(total_pages - 1) :
               /\ Len(PageLines(p)) > 1 => PageRows(p) <= page_line_count
               /\ \A j \in 1..Len(PageLines(p)) :
                      RowsOfLine(p, j) > page_line_count =>
                          Len(PageLines(p)) = 1

\* C11's case: a page of several lines that fills its budget of two rows or
\* more, and a line over the budget alone on another page.
C11_Witness ==
    /\ pc = "loop"
    /\ page_line_count >= 2
    /\ \E p \in 0..(total_pages - 1) :
           Len(PageLines(p)) > 1 /\ PageRows(p) = page_line_count
    /\ \E p \in 0..(total_pages - 1) :
           Len(PageLines(p)) = 1 /\ RowsOfLine(p, 1) > page_line_count

\* C12: pagination is greedy: the rows of a page that is not the last, plus
\* the rows of the first line of the next page, exceed page_line_count; so
\* a text of N * page_line_count equal lines of one row each makes N pages
\* of page_line_count lines each.
C12_PaginationGreedy ==
    pc # "constructed" =>
        /\ \A p \in 0..(total_pages - 2) :
               PageRows(p) + RowsOfLine(p + 1, 1) > page_line_count
        /\ \A n \in 1..Len(lines) :
               (/\ Len(lines) = n * page_line_count
                /\ \A i \in 1..Len(lines) :
                       lines[i] = lines[1] /\ LinesNeeded(RStrip(lines[i]), width) = 1) =>
                   /\ total_pages = n
                   /\ \A p \in 0..(n - 1) :
                          /\ Len(PageLines(p)) = page_line_count
                          /\ PageStart(p) = p * page_line_count * Len(lines[1])

\* C12's case: four equal lines of one character on pages of two rows.
C12_Witness ==
    /\ pc = "loop"
    /\ page_line_count = 2
    /\ Len(lines) = 4
    /\ \A i \in 1..4 : lines[i] = <<LetterA, NL>>
    /\ total_pages = 2

---------------------------------------------------------------------------
(* Position.                                                               *)

\* C13: a backspace read at current_pos = 0 changes none of current_pos,
\* user_input, correct_chars, wrong_chars and current_page, and the loop
\* goes on.
C13_BackspaceAtZeroNoOp ==
    [][(Key_Backspace /\ current_pos = 0) =>
           /\ UNCHANGED <<session, current_page>>
           /\ pc' = "loop"
           /\ completed' = None
           /\ end_time' = None]_vars

\* C13's case: a backspace was the last key read and no character has been
\* typed yet (the counters never decrease).
C13_Witness ==
    /\ pc = "loop"
    /\ key \in {Some(DEL), Some(KEY_BACKSPACE)}
    /\ correct_chars + wrong_chars = 0
    /\ current_pos = 0
    /\ user_input = <<>>

\* 0 <= current_pos <= total_chars and user_input holds current_pos entries
PositionInRange ==
    /\ 0 <= current_pos
    /\ current_pos <= total_chars
    /\ Len(user_input) = current_pos

\* C15: in every state PositionInRange holds; a typed character moves
\* current_pos by +1, a backspace by -1 when current_pos > 0 and by 0 at 0,
\* ESC by 0, and a page advance by 0.
C15_PositionSteps ==
    [][/\ PositionInRange
       /\ PositionInRange'
       /\ (Key_Char /\ pc' # "crashed") => (current_pos' = current_pos + 1)
       /\ (Key_Backspace /\ current_pos > 0) => (current_pos' = current_pos - 1)
       /\ (Key_Backspace /\ current_pos = 0) => (current_pos' = current_pos)
       /\ Key_Esc => (current_pos' = current_pos)
       /\ Loop_NextPage => (current_pos' = current_pos)]_vars

\* C15's case: a character typed and erased on the second page, so that
\* typed characters, a page advance and a backspace have all moved the state.
C15_Witness ==
    /\ pc = "loop"
    /\ current_page > 0
    /\ key \in {Some(DEL), Some(KEY_BACKSPACE)}
    /\ current_pos = PageStart(current_page)
    /\ correct_chars + wrong_chars = current_pos + 1

---------------------------------------------------------------------------
(* Sessions of typed characters only.                                      *)

\* No typed character has been erased: the counters never decrease, so
\* their sum is the number of characters typed so far.
NoErase == correct_chars + wrong_chars = current_pos

\* what C14 says of a session that has typed total_chars characters and
\* erased none
TypedRunEnded ==
    /\ pc \in {"loop", "returned", "exited"}
    /\ ~AtGetch
    /\ (pc # "loop") => (completed = Some(TRUE))
    /\ correct_chars = Cardinality(Judged(TRUE))
    /\ wrong_chars = Cardinality(Judged(FALSE))

\* C14: for any reference text, after total_chars typed characters with no
\* backspace and no cancel the session has current_pos = total_chars,
\* correct_chars is the number of typed characters equal to the reference
\* at their slot, wrong_chars the number of the others, no further key is
\* read and run() returns True.
C14_TypedRunCounts ==
    (pc # "constructed" /\ NoErase /\ current_pos = total_chars) =>
        TypedRunEnded

\* The same for the texts that are not empty.
TypedRunCountsNonEmpty ==
    (pc # "constructed" /\ NoErase /\ current_pos = total_chars
        /\ total_chars > 0) =>
        TypedRunEnded

\* C16: in a session of typed characters only, each key read is one more
\* character judged; a page advance reads no key, moves current_page by
\* one and leaves the loop waiting for a key (so there is at most one
\* between two keys); current_page never moves otherwise; and the loop
\* returns True when exactly total_chars characters have been typed, on
\* the last page.
C16_TypedRunCompletes ==
    [][/\ (Key_Char /\ pc' # "crashed") =>
              /\ correct_chars' + wrong_chars' = correct_chars + wrong_chars + 1
              /\ current_pos' = current_pos + 1
       /\ Loop_NextPage =>
              /\ key' = key
              /\ UNCHANGED session
              /\ current_page' = current_page + 1
              /\ NoErase => AtGetch'
       /\ ~Loop_NextPage => (current_page' = current_page)
       /\ (NoErase /\ pc = "loop" /\ correct_chars + wrong_chars < total_chars
              /\ ~Key_Esc) =>
              (completed' = None)
       /\ (NoErase /\ pc = "loop" /\ correct_chars + wrong_chars = total_chars) =>
              /\ completed' = Some(TRUE)
              /\ pc' = "returned"
              /\ key' = key
              /\ current_page = total_pages - 1]_vars

\* C16's case: a text of three pages typed through without a backspace.
C16_Witness ==
    /\ pc = "returned"
    /\ completed = Some(TRUE)
    /\ NoErase
    /\ total_pages = 3
    /\ current_page = 2
    /\ correct_chars + wrong_chars = total_chars

---------------------------------------------------------------------------
(* The colours of the characters already entered.                          *)

\* what draw_text draws in the state as it is
Drawn == DrawText(current_page, current_pos, user_input).cells

\* C17: draw_text never takes the fallback colour (pair 4): every offset of
\* the current page below current_pos has an entry of user_input at the
\* index draw_text looks it up at.
C17_NoFallbackColour ==
    (pc = "loop" /\ total_pages > 0) =>
        /\ \A i \in PageStart(current_page)..(PageEnd(current_page) - 1) :
               i < current_pos => i - PageStart(current_page) < Len(user_input)
        /\ \A c \in 1..Len(Drawn) : Drawn[c].colour # 4

\* C17's case: an entered character is drawn on a page after the first.
C17_Witness ==
    /\ pc = "loop"
    /\ current_page > 0
    /\ \E c \in 1..Len(Drawn) :
           Drawn[c].idx < current_pos /\ Drawn[c].colour \in {1, 2}

\* C18: on every page, an entered character is drawn as correct (pair 1)
\* exactly when the character typed for its slot equals the reference
\* there, and as incorrect (pair 2) otherwise.
C18_ColourIsJudgment ==
    (pc = "loop" /\ total_pages > 0) =>
        \A c \in 1..Len(Drawn) :
            Drawn[c].idx < current_pos =>
                Drawn[c].colour =
                    (IF user_input[Drawn[c].idx + 1] = text[Drawn[c].idx + 1]
                     THEN 1 ELSE 2)

---------------------------------------------------------------------------
(* Accuracy, and the empty text.                                           *)

\* a fraction <<n, d>> with d > 0 is at most 100
AtMost100(f) == f[1] <= 100 * f[2]

\* C19: correct_chars <= current_pos in every state, so the accuracy of the
\* header is at most 100; and a completed session has correct_chars <=
\* total_chars, so the accuracy of its record is at most 100.
C19_AccuracyAtMost100 ==
    /\ correct_chars <= current_pos
    /\ (pc = "loop" /\ current_pos > 0) =>
           AtMost100(DrawHeader(current_pos, correct_chars, total_chars,
                                1).stats.accuracy)
    /\ (completed = Some(TRUE)) => (correct_chars <= total_chars)
    /\ (record # None) => AtMost100(Val(record).accuracy)

\* C20: with the empty text run() raises nothing: it ends as completed with
\* current_pos = 0 and no key read.
C20_EmptyTextCompletes ==
    (total_chars = 0) =>
        /\ pc # "crashed"
        /\ (pc \in {"returned", "exited"}) =>
               /\ completed = Some(TRUE)
               /\ current_pos = 0
               /\ key = None

===========================================================================
